---- MODULE Spec2Model ----
(***************************************************************************)
(* A model of src/src/lib.rs: the character cursor (Parser), the keyword   *)
(* and symbol candidate matchers (KeywordTokenParser, SymbolParser) and    *)
(* Parser::parse_value, which offers every non-whitespace character of a   *)
(* token to all four matchers and returns the first token one reports.     *)
(*                                                                         *)
(* A char is a one-character string.  Option<char> is a char or None.      *)
(* Option<bool> is NoneB or SomeB(b).  Option<Token> is NoToken or a token *)
(* record.                                                                 *)
(***************************************************************************)
EXTENDS Integers, Sequences, FiniteSets, TLC

VARIABLES source, iterator, current_character, character, line,
          op, ret, pre, pulls,
          kind, iter, result, last_state, offered, mret

parserVars == <<source, iterator, current_character, character, line>>
callVars == <<op, ret, pre, pulls>>
matcherVars == <<kind, iter, result, last_state, offered, mret>>
vars == <<source, iterator, current_character, character, line,
          op, ret, pre, pulls, kind, iter, result, last_state, offered, mret>>

(* ------------------------------ bounds -------------------------------- *)

\* longest source text over Alphabet
MaxLen == 4
\* longest text appended to a keyword or a keyword prefix
MaxTail == 3
\* most parse_value calls recorded on one Parser
MaxPulls == 2
\* most characters offered to one stand-alone matcher
MaxOffer == 6

(* ----------------------------- characters ----------------------------- *)

None == "None"

\* A char of the model is a code point below U+0100 (Basic Latin and
\* Latin-1 Supplement); on these the three sets below are exactly the
\* Unicode predicates the code calls.

\* char::is_alphabetic (the Alphabetic property): A-Z, a-z, U+00AA, U+00B5,
\* U+00BA, U+00C0-U+00D6, U+00D8-U+00F6, U+00F8-U+00FF
AlphabeticChars ==
    {"A", "B", "C", "D", "E", "F", "G", "H", "I", "J", "K", "L", "M",
     "N", "O", "P", "Q", "R", "S", "T", "U", "V", "W", "X", "Y", "Z",
     "a", "b", "c", "d", "e", "f", "g", "h", "i", "j", "k", "l", "m",
     "n", "o", "p", "q", "r", "s", "t", "u", "v", "w", "x", "y", "z",
     "ª", "µ", "º", "À", "Á", "Â", "Ã", "Ä", "Å", "Æ", "Ç", "È", "É",
     "Ê", "Ë", "Ì", "Í", "Î", "Ï", "Ð", "Ñ", "Ò", "Ó", "Ô", "Õ", "Ö",
     "Ø", "Ù", "Ú", "Û", "Ü", "Ý", "Þ", "ß", "à", "á", "â", "ã", "ä",
     "å", "æ", "ç", "è", "é", "ê", "ë", "ì", "í", "î", "ï", "ð", "ñ",
     "ò", "ó", "ô", "õ", "ö", "ø", "ù", "ú", "û", "ü", "ý", "þ", "ÿ"}

\* char::is_numeric, the other part of char::is_alphanumeric (categories Nd,
\* Nl, No): 0-9, U+00B2, U+00B3, U+00B9, U+00BC-U+00BE
NumericChars ==
    {"0", "1", "2", "3", "4", "5", "6", "7", "8", "9", "²", "³", "¹",
     "¼", "½", "¾"}

\* char::is_whitespace (the White_Space property): U+0009-U+000D, U+0020,
\* U+0085, U+00A0
UnicodeWhitespace ==
    {"\t", "\n", "", "\f", "\r", " ", "", " "}

is_alphabetic(c) == c \in AlphabeticChars

is_alphanumeric(c) == c \in AlphabeticChars \cup NumericChars

first_special_chars == {"+", "-", "."}

special_chars ==
    {".", "*", "+", "!", "-", "_", "?", "$", "%", "&", "=", "<", ">", "/"}

extra_special_chars == {"#", ":"}

\* whitespace without the separator comma
is_whitespace_no_comma(ch) == ch \in UnicodeWhitespace

\* Parser::is_whitespace
is_whitespace(ch) == ch \in UnicodeWhitespace \/ ch = ","

(* ------------------------------- tokens ------------------------------- *)

NoToken == [tag |-> "None"]
Nil == [tag |-> "Nil"]
Boolean(b) == [tag |-> "Boolean", b |-> b]
Whitespace(ws) == [tag |-> "Whitespace", chars |-> ws]
Symbol(cs) == [tag |-> "Symbol", chars |-> cs]

NoneB == [some |-> FALSE, v |-> FALSE]
SomeB(b) == [some |-> TRUE, v |-> b]

(* -------------------------- KeywordTokenParser ------------------------ *)

\* KeywordTokenParser::new: iter counts the keyword characters consumed
KeywordNew == [iter |-> 0, last_state |-> NoneB]

\* a flag that forgets an earlier failure
NextLastStateForgetful(last, local_state) == SomeB(local_state)

\* the alive flag after one more character matched (local_state) or not
NextLastState(last, local_state) ==
    IF last.some THEN SomeB(last.v /\ local_state) ELSE SomeB(local_state)

\* KeywordTokenParser::matches: the matcher after it is offered c
KeywordMatches(keyword, p, c) ==
    LET has == p.iter < Len(keyword)
        local_state == has /\ c = keyword[p.iter + 1]
    IN  [iter |-> IF has THEN p.iter + 1 ELSE p.iter,
         last_state |-> NextLastState(p.last_state, local_state)]

\* KeywordTokenParser::get_token
KeywordGetToken(p, token) ==
    IF p.last_state.some /\ p.last_state.v THEN token ELSE NoToken

(* ------------------------------ SymbolParser -------------------------- *)

SymbolNew == [result |-> <<>>, last_state |-> NoneB]

\* a first character may also be a digit
is_character_allowed_digit_first(res, c) ==
    IF res = <<>>
    THEN is_alphanumeric(c) \/ c \in special_chars
    ELSE IF res[1] = "/"
         THEN FALSE
         ELSE IF Len(res) = 1 /\ res[1] \in first_special_chars
              THEN is_alphabetic(c) \/ c \in special_chars
                   \/ c \in extra_special_chars
              ELSE IF res[Len(res)] = "/"
                   THEN is_alphabetic(c) \/ c \in special_chars
                   ELSE is_alphanumeric(c) \/ c \in special_chars
                        \/ c \in extra_special_chars

\* a digit may follow a leading + - .
is_character_allowed_digit_second(res, c) ==
    IF res = <<>>
    THEN is_alphabetic(c) \/ c \in special_chars
    ELSE IF res[1] = "/"
         THEN FALSE
         ELSE IF Len(res) = 1 /\ res[1] \in first_special_chars
              THEN is_alphanumeric(c) \/ c \in special_chars
                   \/ c \in extra_special_chars
              ELSE IF res[Len(res)] = "/"
                   THEN is_alphabetic(c) \/ c \in special_chars
                   ELSE is_alphanumeric(c) \/ c \in special_chars
                        \/ c \in extra_special_chars

\* after a separator anything a symbol may contain is accepted
is_character_allowed_any_after_slash(res, c) ==
    IF res = <<>>
    THEN is_alphabetic(c) \/ c \in special_chars
    ELSE IF res[1] = "/"
         THEN FALSE
         ELSE IF Len(res) = 1 /\ res[1] \in first_special_chars
              THEN is_alphabetic(c) \/ c \in special_chars
                   \/ c \in extra_special_chars
              ELSE IF res[Len(res)] = "/"
                   THEN is_alphanumeric(c) \/ c \in special_chars
                        \/ c \in extra_special_chars
                   ELSE is_alphanumeric(c) \/ c \in special_chars
                        \/ c \in extra_special_chars

\* SymbolParser::is_character_allowed, on the buffer accepted so far
is_character_allowed(res, c) ==
    IF res = <<>>
    THEN is_alphabetic(c) \/ c \in special_chars
    ELSE IF res[1] = "/"
         THEN FALSE
         ELSE IF Len(res) = 1 /\ res[1] \in first_special_chars
              THEN is_alphabetic(c) \/ c \in special_chars
                   \/ c \in extra_special_chars
              ELSE IF res[Len(res)] = "/"
                   THEN is_alphabetic(c) \/ c \in special_chars
                   ELSE is_alphanumeric(c) \/ c \in special_chars
                        \/ c \in extra_special_chars

\* SymbolParser::matches
SymbolMatches(p, c) ==
    LET local_state == is_character_allowed(p.result, c)
    IN  [result |-> IF local_state THEN Append(p.result, c) ELSE p.result,
         last_state |-> NextLastState(p.last_state, local_state)]

\* get_token without the trailing-separator test
SymbolGetTokenAnyEnd(p) ==
    IF p.last_state.some /\ p.last_state.v THEN Symbol(p.result) ELSE NoToken

\* get_token that leaves out the first character of the buffer
SymbolGetTokenDropsFirst(p) ==
    IF p.last_state.some /\ p.last_state.v /\ p.result[Len(p.result)] # "/"
    THEN Symbol(SubSeq(p.result, 2, Len(p.result)))
    ELSE NoToken

\* SymbolParser::get_token
SymbolGetToken(p) ==
    IF p.last_state.some /\ p.last_state.v /\ p.result[Len(p.result)] # "/"
    THEN Symbol(p.result)
    ELSE NoToken

(* -------------------------------- Parser ------------------------------ *)

\* Parser::new: the cursor fields of a Parser over a source not yet read
\* (iterator counts the characters taken from source.chars())
ParserNew ==
    [iterator |-> 0, current_character |-> None, character |-> 0, line |-> 1]

\* an advance that applies the newline rule itself
next_character_newline_rule(src, p) ==
    IF p.iterator < Len(src)
    THEN IF src[p.iterator + 1] = "\n"
         THEN [p EXCEPT !.iterator = p.iterator + 1,
                        !.current_character = src[p.iterator + 1],
                        !.character = 1,
                        !.line = p.line + 1]
         ELSE [p EXCEPT !.iterator = p.iterator + 1,
                        !.current_character = src[p.iterator + 1],
                        !.character = p.character + 1]
    ELSE [p EXCEPT !.current_character = None]

\* an advance that counts a character even at end-of-stream
next_character_counts_always(src, p) ==
    IF p.iterator < Len(src)
    THEN [p EXCEPT !.iterator = p.iterator + 1,
                   !.current_character = src[p.iterator + 1],
                   !.character = p.character + 1]
    ELSE [p EXCEPT !.current_character = None,
                   !.character = p.character + 1]

\* Parser::next_character
next_character(src, p) ==
    IF p.iterator < Len(src)
    THEN [p EXCEPT !.iterator = p.iterator + 1,
                   !.current_character = src[p.iterator + 1],
                   !.character = p.character + 1]
    ELSE [p EXCEPT !.current_character = None]

\* a loop that counts the line but does not restart the character counter
RECURSIVE WhitespaceLoopNoRestart(_, _, _)
WhitespaceLoopNoRestart(src, p, ws) ==
    LET c == p.current_character
    IN  IF c # None /\ is_whitespace(c)
        THEN LET p1 == IF c = "\n"
                       THEN [p EXCEPT !.line = p.line + 1]
                       ELSE p
             IN  WhitespaceLoopNoRestart(src, next_character(src, p1),
                                         Append(ws, c))
        ELSE [parser |-> p, ws |-> ws]

\* the while loop of Parser::parse_whitespace
RECURSIVE WhitespaceLoop(_, _, _)
WhitespaceLoop(src, p, ws) ==
    LET c == p.current_character
    IN  IF c # None /\ is_whitespace(c)
        THEN LET p1 == IF c = "\n"
                       THEN [p EXCEPT !.line = p.line + 1, !.character = 0]
                       ELSE p
             IN  WhitespaceLoop(src, next_character(src, p1), Append(ws, c))
        ELSE [parser |-> p, ws |-> ws]

\* Parser::parse_whitespace: the cursor afterwards and the value returned
parse_whitespace(src, p) ==
    LET r == WhitespaceLoop(src, p, <<>>)
    IN  [parser |-> r.parser,
         ret |-> IF r.ws # <<>> THEN Whitespace(r.ws) ELSE NoToken]

nil_keyword == <<"n", "i", "l">>
true_keyword == <<"t", "r", "u", "e">>
false_keyword == <<"f", "a", "l", "s", "e">>

\* the four matchers parse_value builds
ValueParsersNew ==
    [nil_parser |-> KeywordNew, true_parser |-> KeywordNew,
     false_parser |-> KeywordNew, symbol_parser |-> SymbolNew]

\* the for loop of parse_value: ch is offered to every matcher
OfferAll(m, ch) ==
    [nil_parser |-> KeywordMatches(nil_keyword, m.nil_parser, ch),
     true_parser |-> KeywordMatches(true_keyword, m.true_parser, ch),
     false_parser |-> KeywordMatches(false_keyword, m.false_parser, ch),
     symbol_parser |-> SymbolMatches(m.symbol_parser, ch)]

\* the while loop of parse_value
RECURSIVE ValueLoop(_, _, _)
ValueLoop(src, p, m) ==
    LET p1 == next_character(src, p)
        ch == p1.current_character
    IN  IF ch = None
        THEN [parser |-> p1, m |-> m]
        ELSE IF ~is_whitespace(ch)
             THEN ValueLoop(src, p1, OfferAll(m, ch))
             ELSE [parser |-> p1, m |-> m]

\* the symbol matcher asked before the keyword matchers
ValueTokensSymbolFirst(m) ==
    <<SymbolGetToken(m.symbol_parser),
      KeywordGetToken(m.nil_parser, Nil),
      KeywordGetToken(m.true_parser, Boolean(TRUE)),
      KeywordGetToken(m.false_parser, Boolean(FALSE))>>

\* the tokens of value_parsers, in the order of the vector
ValueTokens(m) ==
    <<KeywordGetToken(m.nil_parser, Nil),
      KeywordGetToken(m.true_parser, Boolean(TRUE)),
      KeywordGetToken(m.false_parser, Boolean(FALSE)),
      SymbolGetToken(m.symbol_parser)>>

\* the first token that is Some, or None
FirstToken(tokens) ==
    IF \E i \in 1..Len(tokens) : tokens[i] # NoToken
    THEN tokens[CHOOSE i \in 1..Len(tokens) :
                    /\ tokens[i] # NoToken
                    /\ \A j \in 1..(i - 1) : tokens[j] = NoToken]
    ELSE NoToken

\* Parser::parse_value: the cursor afterwards, the value returned and the
\* matchers as they are when their tokens are asked for
parse_value(src, p) ==
    LET scan == ValueLoop(src, p, ValueParsersNew)
        ws == parse_whitespace(src, scan.parser)
    IN  [parser |-> ws.parser,
         ret |-> FirstToken(ValueTokens(scan.m)),
         m |-> scan.m]

(* ------------------------------- inputs ------------------------------- *)

Strings(S, n) == UNION {[1..k -> S] : k \in 0..n}

Prefixes(s) == {SubSeq(s, 1, k) : k \in 1..Len(s)}

Keywords == {nil_keyword, true_keyword, false_keyword}

\* characters outside ASCII and the less usual ASCII ones: an upper-case
\* letter, a Latin-1 letter, a Latin-1 numeric, form feed, no-break space
WideAlphabet == {"a", "A", "é", "²", "\f", " "}

\* one character of every class the matchers and the cursor tell apart
Alphabet == {"a", "1", "/", "*", "#", " ", "\n"}

\* what follows a keyword or a keyword prefix
TailAlphabet == {"a", " ", ",", "\n"}

\* what follows a leading + - .
SecondAlphabet == {"a", "1", "#", "/"}

\* nested collections in the notation of the specification
NestedSources ==
    {<<"[", "a", "]">>,
     <<"[", "a", " ", "[", "a", "]", "]">>,
     <<"[", "1", " ", "[", "2", " ", "3", "]", " ",
       "{", "4", " ", "5", "}", "]">>}

Sources ==
    Strings(Alphabet, MaxLen)
    \cup NestedSources
    \cup Strings(WideAlphabet, MaxTail)
    \cup {k \o t : k \in UNION {Prefixes(kw) : kw \in Keywords},
                   t \in Strings(TailAlphabet, MaxTail)}
    \cup {<<c>> \o t : c \in first_special_chars,
                       t \in Strings(SecondAlphabet, MaxTail)}

(* ------------------- the Parser and its operations -------------------- *)

SetCursor(p) ==
    /\ iterator' = p.iterator
    /\ current_character' = p.current_character
    /\ character' = p.character
    /\ line' = p.line

\* the state of a Parser as a record
Cursor ==
    [iterator |-> iterator, current_character |-> current_character,
     character |-> character, line |-> line]

IdleMatcher ==
    /\ kind = "none"
    /\ iter = 0
    /\ result = <<>>
    /\ last_state = NoneB
    /\ offered = <<>>
    /\ mret = FALSE

Init ==
    /\ source \in Sources
    /\ iterator = ParserNew.iterator
    /\ current_character = ParserNew.current_character
    /\ character = ParserNew.character
    /\ line = ParserNew.line
    /\ op = "new"
    /\ ret = NoToken
    /\ pre = ParserNew
    /\ pulls = <<>>
    /\ IdleMatcher

\* a direct call of next_character
NextCharacter ==
    LET p == next_character(source, Cursor)
    IN  /\ SetCursor(p)
        /\ op' = "next_character"
        /\ ret' = [tag |-> "Char", ch |-> p.current_character]
        /\ pre' = Cursor
        /\ UNCHANGED <<source, pulls>>
        /\ UNCHANGED matcherVars

\* a direct call of parse_whitespace
ParseWhitespace ==
    LET r == parse_whitespace(source, Cursor)
    IN  /\ SetCursor(r.parser)
        /\ op' = "parse_whitespace"
        /\ ret' = r.ret
        /\ pre' = Cursor
        /\ UNCHANGED <<source, pulls>>
        /\ UNCHANGED matcherVars

\* a call of parse_value
ParseValue ==
    /\ Len(pulls) < MaxPulls
    /\ LET r == parse_value(source, Cursor)
       IN  /\ SetCursor(r.parser)
           /\ op' = "parse_value"
           /\ ret' = r.ret
           /\ pre' = Cursor
           /\ pulls' = Append(pulls, [from |-> Cursor, to |-> r.parser,
                                      ret |-> r.ret])
    /\ UNCHANGED source
    /\ UNCHANGED matcherVars

Next == NextCharacter \/ ParseWhitespace \/ ParseValue

Spec == Init /\ [][Next]_vars

(* ------------------- a matcher used on its own ------------------------ *)

KeywordKinds == {"nil", "true", "false"}

KeywordOf(k) ==
    IF k = "nil" THEN nil_keyword
    ELSE IF k = "true" THEN true_keyword ELSE false_keyword

TokenOf(k) ==
    IF k = "nil" THEN Nil
    ELSE IF k = "true" THEN Boolean(TRUE) ELSE Boolean(FALSE)

\* the characters offered to a keyword matcher: the one its keyword has
\* next, or one of two others
KeywordOffers ==
    (IF iter < Len(KeywordOf(kind)) THEN {KeywordOf(kind)[iter + 1]} ELSE {})
    \cup {"l", "x"}

\* the characters offered to a symbol matcher
SymbolOffers == {"a", "1", "/", "+", "*", "#", " "}

IdleParser ==
    /\ source = <<>>
    /\ iterator = ParserNew.iterator
    /\ current_character = ParserNew.current_character
    /\ character = ParserNew.character
    /\ line = ParserNew.line
    /\ op = "new"
    /\ ret = NoToken
    /\ pre = ParserNew
    /\ pulls = <<>>

\* KeywordTokenParser::new(keyword, token) or SymbolParser::new()
MatcherInit ==
    /\ kind \in KeywordKinds \cup {"symbol"}
    /\ iter = KeywordNew.iter
    /\ result = SymbolNew.result
    /\ last_state = NoneB
    /\ offered = <<>>
    /\ mret = FALSE
    /\ IdleParser

\* a call of KeywordTokenParser::matches
KeywordMatchesCall ==
    /\ kind \in KeywordKinds
    /\ Len(offered) < MaxOffer
    /\ \E c \in KeywordOffers :
          LET p == KeywordMatches(KeywordOf(kind),
                                  [iter |-> iter, last_state |-> last_state], c)
          IN  /\ iter' = p.iter
              /\ last_state' = p.last_state
              /\ mret' = p.last_state.v
              /\ offered' = Append(offered, c)
    /\ UNCHANGED <<kind, result>>
    /\ UNCHANGED parserVars
    /\ UNCHANGED callVars

\* a call of SymbolParser::matches
SymbolMatchesCall ==
    /\ kind = "symbol"
    /\ Len(offered) < MaxOffer
    /\ \E c \in SymbolOffers :
          LET p == SymbolMatches([result |-> result, last_state |-> last_state], c)
          IN  /\ result' = p.result
              /\ last_state' = p.last_state
              /\ mret' = p.last_state.v
              /\ offered' = Append(offered, c)
    /\ UNCHANGED <<kind, iter>>
    /\ UNCHANGED parserVars
    /\ UNCHANGED callVars

\* get_token of the matcher as it stands
GetToken ==
    IF kind = "symbol"
    THEN SymbolGetToken([result |-> result, last_state |-> last_state])
    ELSE KeywordGetToken([iter |-> iter, last_state |-> last_state], TokenOf(kind))

MatcherNext == KeywordMatchesCall \/ SymbolMatchesCall

MatcherSpec == MatcherInit /\ [][MatcherNext]_vars

(* ------------------------ vocabulary of the claims -------------------- *)

\* whitespace and the separator comma, as the claims name them
WsChars == UnicodeWhitespace \cup {","}

MinOf(S) == CHOOSE x \in S : \A y \in S : x <= y

\* the index of the first whitespace character of src after index i, or
\* Len(src) + 1
TokenEnd(src, i) ==
    LET ws == {j \in (i + 1)..Len(src) : src[j] \in WsChars}
    IN  IF ws = {} THEN Len(src) + 1 ELSE MinOf(ws)

\* the whitespace-free text of src that starts after index i
TokenText(src, i) == SubSeq(src, i + 1, TokenEnd(src, i) - 1)

\* the text a parse_value call was offered
Offered == TokenText(source, pre.iterator)

\* src is keyword kw followed by nothing but whitespace and commas
IsKeywordInput(src, kw) ==
    /\ Len(src) >= Len(kw)
    /\ SubSeq(src, 1, Len(kw)) = kw
    /\ \A j \in (Len(kw) + 1)..Len(src) : src[j] \in WsChars

KeywordToken(kw) ==
    IF kw = nil_keyword THEN Nil
    ELSE IF kw = true_keyword THEN Boolean(TRUE) ELSE Boolean(FALSE)

\* every call so far was parse_value, the first one on a new Parser
OnlyPulls ==
    /\ pulls # <<>>
    /\ pulls[1].from = ParserNew
    /\ \A k \in 1..(Len(pulls) - 1) : pulls[k + 1].from = pulls[k].to

(* ------------------------------- claims ------------------------------- *)

\* C1 (as claimed): a parse_value call whose token is a proper prefix of a
\* keyword ("n", "ni", "t", "tru", "f", "fals", ...) does not return Nil or
\* a Boolean.
C1_ProperPrefixIsNoKeyword ==
    (/\ op = "parse_value"
     /\ \E kw \in Keywords : Offered \in Prefixes(kw) \ {kw})
    => ret.tag \notin {"Nil", "Boolean"}

\* C2: on an input that is nil, true or false followed by end-of-stream or
\* by whitespace and commas only, the first parse_value call on a new Parser
\* returns the keyword's token and every later call returns None.
C2_KeywordThenNone ==
    \A kw \in Keywords :
        (OnlyPulls /\ IsKeywordInput(source, kw))
        => /\ pulls[1].ret = KeywordToken(kw)
           /\ \A k \in 2..Len(pulls) : pulls[k].ret = NoToken

C2_Witness ==
    /\ OnlyPulls
    /\ Len(pulls) >= 2
    /\ IsKeywordInput(source, true_keyword)
    /\ Len(source) > Len(true_keyword)
    /\ pulls[1].ret = Boolean(TRUE)
    /\ pulls[2].ret = NoToken

\* C3: whatever characters a SymbolParser was offered, get_token never
\* returns a Symbol whose last character is "/".
C3_NoSymbolEndsInSlash ==
    (kind = "symbol" /\ GetToken.tag = "Symbol")
    => GetToken.chars[Len(GetToken.chars)] # "/"

C3_Witness ==
    /\ kind = "symbol"
    /\ offered = <<"a", "/">>
    /\ result = offered
    /\ last_state = SomeB(TRUE)
    /\ GetToken = NoToken

\* C4: once matches has made the alive flag of a matcher false, every later
\* matches call on it returns false and leaves the flag false, and get_token
\* returns None.
C4_AliveFlagMonotonic ==
    [][last_state = SomeB(FALSE)
       => /\ last_state' = SomeB(FALSE)
          /\ mret' = FALSE
          /\ GetToken' = NoToken]_vars

C4_Witness ==
    /\ kind = "nil"
    /\ offered = <<"n", "i", "l", "l", "x">>
    /\ last_state = SomeB(FALSE)
    /\ mret = FALSE
    /\ GetToken = NoToken

\* the accepted prefix of token t under the symbol grammar: the index of the
\* first character of t the allowed-character predicate refuses, or
\* Len(t) + 1
RECURSIVE FirstRefused(_, _)
FirstRefused(t, k) ==
    IF k > Len(t) THEN k
    ELSE IF is_character_allowed(SubSeq(t, 1, k - 1), t[k])
         THEN FirstRefused(t, k + 1)
         ELSE k

\* C5 (as claimed): parse_value stops pulling characters at the first one
\* that fails the symbol allowed-character predicate or is whitespace: after
\* the call the cursor is on that character (or at end-of-stream when the
\* whole rest of the source belongs to the atom).
C5_StopsAtFirstOffending ==
    op = "parse_value"
    => LET k == pre.iterator + FirstRefused(Offered, 1)
       IN  IF k > Len(source)
           THEN current_character = None /\ iterator = Len(source)
           ELSE current_character = source[k] /\ iterator = k

\* the general special characters that are not the namespace separator
GeneralSpecial ==
    {".", "*", "+", "!", "-", "_", "?", "$", "%", "&", "=", "<", ">"}

\* C6 (as claimed): the first character of a token returned as Symbol is
\* alphabetic or one of + - .
C6_FirstIsAlphabeticOrSign ==
    (op = "parse_value" /\ ret.tag = "Symbol")
    => (ret.chars[1] \in AlphabeticChars \/ ret.chars[1] \in {"+", "-", "."})

\* C6 (amended): the first character of a token returned as Symbol is
\* alphabetic or one of the general special characters
\* . * + ! - _ ? $ % & = < > (never "/", a digit, "#" or ":").
C6_FirstIsAlphabeticOrSpecial ==
    (op = "parse_value" /\ ret.tag = "Symbol")
    => (ret.chars[1] \in AlphabeticChars \/ ret.chars[1] \in GeneralSpecial)

C6_Witness ==
    /\ op = "parse_value"
    /\ Offered = <<"*", "a">>
    /\ ret = Symbol(<<"*", "a">>)

\* C7 (as claimed): no token returned as Symbol contains two consecutive
\* "/" characters.
C7_NoDoubleSlash ==
    (op = "parse_value" /\ ret.tag = "Symbol")
    => \A i \in 1..(Len(ret.chars) - 1) :
           ~(ret.chars[i] = "/" /\ ret.chars[i + 1] = "/")

\* C8: a token whose first character is + - or . and whose second character
\* is not alphabetic, a general special character, "#" or ":" (a digit, for
\* one) makes parse_value return None.
C8_SignThenDigitFails ==
    (/\ op = "parse_value"
     /\ Len(Offered) >= 2
     /\ Offered[1] \in {"+", "-", "."}
     /\ Offered[2] \notin AlphabeticChars \cup GeneralSpecial \cup {"/", "#", ":"})
    => ret = NoToken

C8_Witness ==
    /\ op = "parse_value"
    /\ pre = ParserNew
    /\ source = <<"+", "1", "a">>
    /\ ret = NoToken

\* C9: a token in which some "/" is immediately followed by a digit, "#" or
\* ":" makes parse_value return None, whatever follows.
C9_SlashThenDigitFails ==
    (/\ op = "parse_value"
     /\ \E i \in 1..(Len(Offered) - 1) :
            /\ Offered[i] = "/"
            /\ Offered[i + 1] \in NumericChars \cup {"#", ":"})
    => ret = NoToken

C9_Witness ==
    /\ op = "parse_value"
    /\ Offered = <<"a", "/", "1", "a">>
    /\ ret = NoToken

\* the last index of the run of whitespace and commas of src that starts at
\* index i (i - 1 when src[i] is neither)
RunEnd(src, i) ==
    LET stops == {j \in i..Len(src) : src[j] \notin WsChars}
    IN  IF stops = {} THEN Len(src) ELSE MinOf(stops) - 1

\* C10: parse_whitespace, called with the cursor on a character, returns
\* Whitespace(run) for the maximal run of whitespace and commas that starts
\* there, or None when that run is empty, and leaves the cursor at
\* end-of-stream or on the first character after the run.
C10_MaximalRun ==
    (op = "parse_whitespace" /\ pre.current_character # None)
    => LET i == pre.iterator
           j == RunEnd(source, i)
           run == SubSeq(source, i, j)
       IN  /\ ret = IF run # <<>> THEN Whitespace(run) ELSE NoToken
           /\ IF run = <<>>
              THEN Cursor = pre
              ELSE IF j = Len(source)
                   THEN current_character = None /\ iterator = Len(source)
                   ELSE /\ current_character = source[j + 1]
                        /\ iterator = j + 1
                        /\ current_character \notin WsChars

C10_Witness ==
    /\ op = "parse_whitespace"
    /\ pre.current_character = ","
    /\ ret = Whitespace(<<",", " ">>)
    /\ current_character = "a"

\* C11: after parse_whitespace has consumed a run that starts at the current
\* character, line has grown by the number of newlines of the run, and when
\* the run holds a newline, character is the number of characters taken from
\* the source after the last newline of the run.
C11_LineAndColumnAfterRun ==
    (op = "parse_whitespace" /\ pre.current_character \in WsChars)
    => LET i == pre.iterator
           j == RunEnd(source, i)
           newlines == {n \in i..j : source[n] = "\n"}
       IN  /\ line = pre.line + Cardinality(newlines)
           /\ newlines # {}
              => \E n \in newlines :
                    /\ \A m \in newlines : m <= n
                    /\ character = iterator - n

C11_Witness ==
    /\ op = "parse_whitespace"
    /\ source = <<" ", "\n", " ">>
    /\ pre.iterator = 1
    /\ pre.line = 1
    /\ line = 2
    /\ character = 1

\* C12 (as claimed): next_character applies the newline rule: when the
\* character it consumes is a newline, line grows by one and character
\* becomes 1; otherwise character grows by one.
C12_AdvanceAppliesNewlineRule ==
    (op = "next_character" /\ pre.iterator < Len(source))
    => IF source[pre.iterator + 1] = "\n"
       THEN line = pre.line + 1 /\ character = 1
       ELSE line = pre.line /\ character = pre.character + 1

\* C12 (amended): next_character never changes line and adds one to character
\* for every character it consumes, a newline included.
C12_AdvanceCountsCharactersOnly ==
    (op = "next_character" /\ pre.iterator < Len(source))
    => /\ line = pre.line
       /\ character = pre.character + 1

C12_Witness ==
    /\ op = "next_character"
    /\ current_character = "\n"
    /\ pre.character = 1
    /\ character = 2
    /\ line = 1

\* C13: next_character returns the next unread character of the source and
\* adds one to character (the first call on a new Parser returns the first
\* character and makes character 1); once the source is exhausted it returns
\* None, sets the current character to end-of-stream and leaves character
\* and line as they were.
C13_AdvanceInOrderThenNone ==
    op = "next_character"
    => IF pre.iterator < Len(source)
       THEN /\ ret.ch = source[pre.iterator + 1]
            /\ current_character = ret.ch
            /\ iterator = pre.iterator + 1
            /\ character = pre.character + 1
            /\ pre = ParserNew => (ret.ch = source[1] /\ character = 1)
       ELSE /\ ret.ch = None
            /\ current_character = None
            /\ iterator = pre.iterator
            /\ character = pre.character
            /\ line = pre.line

C13_Witness ==
    /\ op = "next_character"
    /\ Len(source) = 3
    /\ pre.iterator = 3
    /\ pre.current_character = source[3]
    /\ pre.character = 3
    /\ ret.ch = None
    /\ character = 3

\* the whitespace-free tokens of src that start after index i, in order
RECURSIVE SourceTokens(_, _)
SourceTokens(src, i) ==
    LET starts == {j \in (i + 1)..Len(src) : src[j] \notin WsChars}
    IN  IF starts = {}
        THEN <<>>
        ELSE LET b == MinOf(starts)
                 e == TokenEnd(src, b)
             IN  <<SubSeq(src, b, e - 1)>> \o SourceTokens(src, e - 1)

\* what a new Parser makes of text t on its own
Classify(t) == parse_value(t, ParserNew).ret

ScalarTags == {"Nil", "Boolean", "Symbol"}

\* C14 (as claimed): when the source is a complete scalar followed by
\* whitespace and further text, no parse_value call after the first returns
\* a second scalar token.
C14_NoSecondScalar ==
    (/\ OnlyPulls
     /\ Len(SourceTokens(source, 0)) >= 2
     /\ source[1] \notin WsChars
     /\ pulls[1].ret.tag \in ScalarTags)
    => \A k \in 2..Len(pulls) : pulls[k].ret.tag \notin ScalarTags

\* C15 (as claimed): once a parse_value call on a non-empty token has
\* returned None, every later parse_value call on the Parser returns None.
C15_FailureIsFinal ==
    OnlyPulls
    => \A k \in 1..Len(pulls) :
           (/\ pulls[k].ret = NoToken
            /\ TokenText(source, pulls[k].from.iterator) # <<>>)
           => \A j \in (k + 1)..Len(pulls) : pulls[j].ret = NoToken

\* C16: when parse_value returns Symbol(t), parse_value on a new Parser over
\* the text t returns Symbol(t) again.
C16_SymbolRescanIsSame ==
    (op = "parse_value" /\ ret.tag = "Symbol")
    => Classify(ret.chars) = ret

C16_Witness ==
    /\ op = "parse_value"
    /\ pre.iterator > 0
    /\ ret = Symbol(<<"*", "a">>)
    /\ Classify(<<"*", "a">>) = ret

CollectionStartTags == {"ListStart", "VectorStart", "SetStart", "MapStart"}

\* C17 (as claimed): on a well-formed nested input the first event pulled is
\* the start of the outer collection (the events of its elements and its
\* end follow).
C17_NestedInputOpensCollection ==
    (OnlyPulls /\ source \in NestedSources)
    => pulls[1].ret.tag \in CollectionStartTags

\* C18 (as claimed): the k-th parse_value call on a new Parser returns what
\* the complete text of the k-th whitespace-free token of the source
\* classifies as (None once the tokens are used up).
C18_EveryTokenClassifiedWhole ==
    OnlyPulls
    => LET toks == SourceTokens(source, 0)
       IN  \A k \in 1..Len(pulls) :
               pulls[k].ret = IF k <= Len(toks) THEN Classify(toks[k])
                              ELSE NoToken

\* C19: a parse_value call made when the source is exhausted (every character
\* taken and the current character end-of-stream) returns None and leaves
\* the current character, character and line as they were.
C19_EndOfStreamAbsorbing ==
    (/\ op = "parse_value"
     /\ pre.iterator = Len(source)
     /\ pre.current_character = None)
    => /\ ret = NoToken
       /\ current_character = None
       /\ character = pre.character
       /\ line = pre.line
       /\ iterator = pre.iterator

C19_Witness ==
    /\ op = "parse_value"
    /\ Len(pulls) >= 2
    /\ Len(source) >= 3
    /\ pre.iterator = Len(source)
    /\ pre.current_character = None
    /\ pre.line = 2
    /\ ret = NoToken
    /\ Cursor = pre

\* C20: a SymbolParser whose flag is Some(true) has a non-empty buffer that
\* is exactly the characters offered to it, so get_token reads the last
\* element of a non-empty buffer and a Symbol carries the whole text.
C20_AliveBufferIsOffered ==
    (kind = "symbol" /\ last_state = SomeB(TRUE))
    => /\ result # <<>>
       /\ result = offered
       /\ GetToken.tag = "Symbol" => GetToken.chars = offered

C20_Witness ==
    /\ kind = "symbol"
    /\ last_state = SomeB(TRUE)
    /\ offered = <<"a", "/", "a">>
    /\ GetToken = Symbol(offered)

====
